---- MODULE Spec2Model ----
(***************************************************************************)
(* A model of the free-list allocator of src/memory-allocation.c           *)
(* (allocateMemory, freeMemory, reportFreeMemory over one growable linear  *)
(* memory).  Addresses and sizes are unsigned machine words, as on the     *)
(* wasm32 target the allocator is written for.                             *)
(***************************************************************************)
EXTENDS Integers, Sequences, FiniteSets, TLC

\* ---------------------------------------------------------------------
\* Program constants
\* ---------------------------------------------------------------------
NULL == 0

BLKSIZ == 65536

\* sizeof(header_t): a 4-byte pointer and a 4-byte unsigned int.
HeaderSize == 8

initial_offset == 8

\* Pointers, unsigned int and long have one width, and unsigned arithmetic
\* wraps at it.  The program's width is 32 bits; TLC's integers end at
\* 2^31 - 1, so the model's machine word is 30 bits wide (2^30): every sum of
\* two words is then still an integer TLC can hold before it is reduced.
Word == 1073741824

\* ---------------------------------------------------------------------
\* Bounds of the model
\* ---------------------------------------------------------------------
\* The provider refuses to grow the memory beyond this many pages.
MaxPages == 4

\* The client makes at most this many calls in one run.
MaxCalls == 6

\* Within one call the provider grants at most this many calls of grow
\* before it fails (every number from 0 up to this one is explored).
MaxGrants == 2

\* The length of the memory when the module is instantiated: one page.
InitialLength == BLKSIZ

\* The request sizes the client passes to allocateMemory.
Requests == {5, 16, 65504, 65528}

VARIABLES
    hdr,             \* address -> [size, next]: the block headers in memory
    free_list,       \* static header_t *free_list
    is_initialised,  \* static int is_initialised
    memLen,          \* the provider's memoryBytesLength()
    live,            \* pointers returned to the client and not yet freed
    calls,           \* the number of calls the client has made
    last,            \* the last completed call: arguments, result, path taken
    trace            \* the two calls before it, newest first

vars == <<hdr, free_list, is_initialised, memLen, live, calls, last, trace>>

U32(x) == x % Word

\* The allocator's state as one value, so that the C functions can be
\* written as operators from state to state.
State == [hdr |-> hdr, free_list |-> free_list,
          is_initialised |-> is_initialised, len |-> memLen]

\* Write one header field set (a store through a header_t pointer).
Store(h, addr, size, next) ==
    [a \in (DOMAIN h) \cup {addr} |->
        IF a = addr THEN [size |-> size, next |-> next] ELSE h[a]]

\* ---------------------------------------------------------------------
\* The growth provider (extern grow, memoryBytesLength)
\* ---------------------------------------------------------------------
\* grow(blocks) with `grants` requests still to be granted: the new length
\* of the memory, or 0 when the provider fails.
Grow(len, blocks, grants) ==
    IF grants > 0 /\ len + blocks * BLKSIZ <= MaxPages * BLKSIZ
    THEN len + blocks * BLKSIZ
    ELSE 0

\* ---------------------------------------------------------------------
\* ensureInitialised
\* ---------------------------------------------------------------------
\* A variant of EnsureInitialised that takes an empty free list for an
\* allocator not yet set up.
EnsureInitialised_WhenEmpty(st) ==
    IF st.is_initialised = 0 \/ st.free_list = NULL
    THEN [st EXCEPT
            !.is_initialised = 1,
            !.hdr = Store(st.hdr, initial_offset,
                          U32(st.len - (HeaderSize + initial_offset)), NULL),
            !.free_list = initial_offset]
    ELSE st

EnsureInitialised(st) ==
    IF st.is_initialised = 0
    THEN [st EXCEPT
            !.is_initialised = 1,
            !.hdr = Store(st.hdr, initial_offset,
                          U32(st.len - (HeaderSize + initial_offset)), NULL),
            !.free_list = initial_offset]
    ELSE st

\* ---------------------------------------------------------------------
\* freeMemory
\* ---------------------------------------------------------------------
\* The loop that finds where the block goes: the pair <<previous, current>>
\* the loop ends with.
\* A variant of FreeScan without the case of a block below the head of the
\* list.
RECURSIVE FreeScan_NoHeadCase(_, _, _, _)
FreeScan_NoHeadCase(h, unallocated, previous, current) ==
    IF current = NULL THEN <<previous, current>>
    ELSE IF unallocated > previous /\ unallocated < current
         THEN <<previous, current>>
    ELSE FreeScan_NoHeadCase(h, unallocated, current, h[current].next)

RECURSIVE FreeScan(_, _, _, _)
FreeScan(h, unallocated, previous, current) ==
    IF current = NULL THEN <<previous, current>>
    ELSE IF unallocated > previous /\ unallocated < current
         THEN <<previous, current>>
    ELSE IF current = previous /\ unallocated < current
         THEN <<NULL, current>>
    ELSE FreeScan(h, unallocated, current, h[current].next)

\* A variant of AttachCurrent that chains and never merges.
AttachCurrent_NoMerge(h, unallocated, current) ==
    IF current # NULL
    THEN Store(h, unallocated, h[unallocated].size, current)
    ELSE h

\* "Attach the unallocated block to the current block."
AttachCurrent(h, unallocated, current) ==
    IF current # NULL
    THEN IF current = U32(unallocated + HeaderSize + h[unallocated].size)
         THEN Store(h, unallocated,
                    U32(h[unallocated].size + h[current].size + HeaderSize),
                    h[current].next)
         ELSE Store(h, unallocated, h[unallocated].size, current)
    ELSE h

\* A variant of AttachPrevious that chains and never merges.
AttachPrevious_NoMerge(st, unallocated, previous) ==
    IF previous = NULL
    THEN [st EXCEPT !.free_list = unallocated]
    ELSE [st EXCEPT !.hdr = Store(st.hdr, previous,
              st.hdr[previous].size, unallocated)]

\* The last step of freeMemory: head of the list, or merged with or
\* chained to the previous block.
AttachPrevious(st, unallocated, previous) ==
    IF previous = NULL
    THEN [st EXCEPT !.free_list = unallocated]
    ELSE IF unallocated = U32(previous + HeaderSize + st.hdr[previous].size)
         THEN [st EXCEPT !.hdr = Store(st.hdr, previous,
                   U32(st.hdr[previous].size + st.hdr[unallocated].size + HeaderSize),
                   st.hdr[unallocated].next)]
         ELSE [st EXCEPT !.hdr = Store(st.hdr, previous,
                   st.hdr[previous].size, unallocated)]

\* A variant of FreeMemoryOp that takes the NULL pointer for a request to
\* give up the free list.
FreeMemoryOp_NullResets(st0, ptr) ==
    LET st == EnsureInitialised(st0)
        unallocated == ptr - HeaderSize
    IN  IF ptr = NULL THEN [st EXCEPT !.free_list = NULL]
        ELSE IF st.free_list = NULL
             THEN [st EXCEPT !.free_list = unallocated]
        ELSE LET slot == FreeScan(st.hdr, unallocated, st.free_list, st.free_list)
                 h1 == AttachCurrent(st.hdr, unallocated, slot[2])
             IN  AttachPrevious([st EXCEPT !.hdr = h1], unallocated, slot[1])

FreeMemoryOp(st0, ptr) ==
    LET st == EnsureInitialised(st0)
        unallocated == ptr - HeaderSize
    IN  IF ptr = NULL THEN st
        ELSE IF st.free_list = NULL
             THEN [st EXCEPT !.free_list = unallocated]
        ELSE LET slot == FreeScan(st.hdr, unallocated, st.free_list, st.free_list)
                 h1 == AttachCurrent(st.hdr, unallocated, slot[2])
             IN  AttachPrevious([st EXCEPT !.hdr = h1], unallocated, slot[1])

\* ---------------------------------------------------------------------
\* getMoreMemory
\* ---------------------------------------------------------------------
\* The number of pages asked for.
BlocksFor(bytes_required) ==
    LET blocks == bytes_required \div BLKSIZ
    IN  IF U32(blocks * BLKSIZ) < bytes_required THEN blocks + 1 ELSE blocks

\* [st, ret, grants]: the state, the pointer returned (NULL on failure) and
\* the grants the provider has left.
GetMoreMemory(st, bytes_required0, grants) ==
    LET bytes_required == U32(bytes_required0 + HeaderSize)
        blocks == BlocksFor(bytes_required)
        start_of_new_memory == st.len
        end_of_new_memory == Grow(st.len, blocks, grants)
    IN  IF end_of_new_memory = 0
        THEN [st |-> st, ret |-> NULL, grants |-> grants]
        ELSE LET h1 == Store(st.hdr, start_of_new_memory,
                             U32(end_of_new_memory - start_of_new_memory - HeaderSize),
                             NULL)
                 st1 == FreeMemoryOp([st EXCEPT !.hdr = h1, !.len = end_of_new_memory],
                                     start_of_new_memory + HeaderSize)
             IN  [st |-> st1, ret |-> st1.free_list, grants |-> grants - 1]

\* ---------------------------------------------------------------------
\* allocateMemory
\* ---------------------------------------------------------------------
\* A variant of Pad that leaves the request as it is.
Pad_NoPad(bytes_required) == bytes_required

\* "Pad to 8 bytes"
Pad(bytes_required) ==
    U32(bytes_required + ((8 - (bytes_required % 8)) % 8))

\* The exact-match branch.
ExactMatch(st, current, previous) ==
    IF current = st.free_list
    THEN [st EXCEPT !.free_list = NULL,
                    !.hdr = Store(st.hdr, current, st.hdr[current].size, NULL)]
    ELSE LET h1 == Store(st.hdr, previous, st.hdr[previous].size,
                         st.hdr[current].next)
         IN  [st EXCEPT !.hdr = Store(h1, current, h1[current].size, NULL)]

\* A variant of SplitBlock that puts the remainder where the payload of the
\* allocated block begins.
SplitBlock_Overlap(st, current, previous, bytes_required, bytes_required_plus_header) ==
    LET unallocated == U32(current + HeaderSize)
        h1 == Store(st.hdr, unallocated,
                    U32(st.hdr[current].size - bytes_required_plus_header),
                    st.hdr[current].next)
        st1 == IF current = st.free_list
               THEN [st EXCEPT !.hdr = h1, !.free_list = unallocated]
               ELSE [st EXCEPT !.hdr = Store(h1, previous, h1[previous].size,
                                             unallocated)]
    IN  [st1 EXCEPT !.hdr = Store(st1.hdr, current, bytes_required, NULL)]

\* A variant of SplitBlock whose remainder keeps the bytes of the header.
SplitBlock_NoHeader(st, current, previous, bytes_required, bytes_required_plus_header) ==
    LET unallocated == U32(current + bytes_required_plus_header)
        h1 == Store(st.hdr, unallocated,
                    U32(st.hdr[current].size - bytes_required),
                    st.hdr[current].next)
        st1 == IF current = st.free_list
               THEN [st EXCEPT !.hdr = h1, !.free_list = unallocated]
               ELSE [st EXCEPT !.hdr = Store(h1, previous, h1[previous].size,
                                             unallocated)]
    IN  [st1 EXCEPT !.hdr = Store(st1.hdr, current, bytes_required, NULL)]

\* A variant of SplitBlock whose remainder ends the list.
SplitBlock_DropsNext(st, current, previous, bytes_required, bytes_required_plus_header) ==
    LET unallocated == U32(current + bytes_required_plus_header)
        h1 == Store(st.hdr, unallocated,
                    U32(st.hdr[current].size - bytes_required_plus_header),
                    NULL)
        st1 == IF current = st.free_list
               THEN [st EXCEPT !.hdr = h1, !.free_list = unallocated]
               ELSE [st EXCEPT !.hdr = Store(h1, previous, h1[previous].size,
                                             unallocated)]
    IN  [st1 EXCEPT !.hdr = Store(st1.hdr, current, bytes_required, NULL)]

\* The split branch.
SplitBlock(st, current, previous, bytes_required, bytes_required_plus_header) ==
    LET unallocated == U32(current + bytes_required_plus_header)
        h1 == Store(st.hdr, unallocated,
                    U32(st.hdr[current].size - bytes_required_plus_header),
                    st.hdr[current].next)
        st1 == IF current = st.free_list
               THEN [st EXCEPT !.hdr = h1, !.free_list = unallocated]
               ELSE [st EXCEPT !.hdr = Store(h1, previous, h1[previous].size,
                                             unallocated)]
    IN  [st1 EXCEPT !.hdr = Store(st1.hdr, current, bytes_required, NULL)]

\* A variant of the loop that serves the request from the last block that
\* fits instead of the first.
RECURSIVE AllocScan_LastFit(_, _, _, _, _)
AllocScan_LastFit(st, current, previous, bytes_required, bytes_required_plus_header) ==
    IF current = NULL
    THEN [st |-> st, ret |-> NULL, path |-> "none"]
    ELSE LET later == AllocScan_LastFit(st, st.hdr[current].next, current,
                                        bytes_required,
                                        bytes_required_plus_header)
         IN  IF later.ret # NULL
             THEN later
             ELSE IF st.hdr[current].size = bytes_required
                  THEN [st |-> ExactMatch(st, current, previous),
                        ret |-> current + HeaderSize, path |-> "exact"]
             ELSE IF st.hdr[current].size > bytes_required
                  THEN [st |-> SplitBlock(st, current, previous,
                                          bytes_required,
                                          bytes_required_plus_header),
                        ret |-> current + HeaderSize, path |-> "split"]
             ELSE later

\* The first-fit loop: [st, ret, path]; ret = NULL when no block fits.
RECURSIVE AllocScan(_, _, _, _, _)
AllocScan(st, current, previous, bytes_required, bytes_required_plus_header) ==
    IF current = NULL
    THEN [st |-> st, ret |-> NULL, path |-> "none"]
    ELSE IF st.hdr[current].size = bytes_required
         THEN [st |-> ExactMatch(st, current, previous),
               ret |-> current + HeaderSize, path |-> "exact"]
    ELSE IF st.hdr[current].size > bytes_required
         THEN [st |-> SplitBlock(st, current, previous, bytes_required,
                                 bytes_required_plus_header),
               ret |-> current + HeaderSize, path |-> "split"]
    ELSE AllocScan(st, st.hdr[current].next, current, bytes_required,
                   bytes_required_plus_header)

\* A variant of the retry that doubles the request.
RetryRequest_Double(bytes_required, bytes_required_plus_header) == U32(2 * bytes_required_plus_header)

\* The request made by the retry after a successful growth.
RetryRequest(bytes_required, bytes_required_plus_header) ==
    bytes_required_plus_header

\* [st, ret, path, grows, grants]: grows counts the calls of grow.
RECURSIVE AllocateMemoryOp(_, _, _, _)
AllocateMemoryOp(st0, bytes_required0, grants, grows) ==
    LET stI == EnsureInitialised(st0)
        bytes_required == Pad(bytes_required0)
        bytes_required_plus_header == U32(bytes_required + HeaderSize)
        empty == stI.free_list = NULL
        more == GetMoreMemory(stI, bytes_required_plus_header, grants)
        st1 == IF empty THEN [more.st EXCEPT !.free_list = more.ret] ELSE stI
        grants1 == IF empty THEN more.grants ELSE grants
        grows1 == IF empty THEN grows + 1 ELSE grows
    IN  IF empty /\ more.ret = NULL
        THEN [st |-> st1, ret |-> NULL, path |-> "none",
              grows |-> grows1, grants |-> grants1]
        ELSE LET scan == AllocScan(st1, st1.free_list, st1.free_list,
                                   bytes_required, bytes_required_plus_header)
                 again == GetMoreMemory(st1, bytes_required, grants1)
             IN  IF scan.ret # NULL
                 THEN [st |-> scan.st, ret |-> scan.ret, path |-> scan.path,
                       grows |-> grows1, grants |-> grants1]
                 ELSE IF again.ret = NULL
                 THEN [st |-> again.st, ret |-> NULL, path |-> "none",
                       grows |-> grows1 + 1, grants |-> again.grants]
                 ELSE AllocateMemoryOp(again.st,
                          RetryRequest(bytes_required, bytes_required_plus_header),
                          again.grants, grows1 + 1)

\* ---------------------------------------------------------------------
\* reportFreeMemory
\* ---------------------------------------------------------------------
RECURSIVE SumSizes(_, _, _)
SumSizes(h, current, total) ==
    IF current = NULL THEN total
    ELSE SumSizes(h, h[current].next, U32(total + h[current].size))

ReportFreeMemoryOp(st0) ==
    LET st == EnsureInitialised(st0)
    IN  IF st.free_list = NULL THEN 0
        ELSE SumSizes(st.hdr, st.free_list, 0)

\* ---------------------------------------------------------------------
\* The free list as a sequence of block addresses
\* ---------------------------------------------------------------------
\* Follows next links from `current` for at most `fuel` steps; a list that
\* does not end within the fuel is cut there (and then has a repeated
\* block or more blocks than headers).
RECURSIVE Walk(_, _, _)
Walk(h, current, fuel) ==
    IF current = NULL \/ fuel = 0 \/ current \notin DOMAIN h THEN <<>>
    ELSE <<current>> \o Walk(h, h[current].next, fuel - 1)

FreeSeqOf(st) == Walk(st.hdr, st.free_list, Cardinality(DOMAIN st.hdr) + 1)

FreeSeq == FreeSeqOf(State)

FreeSet == {FreeSeq[i] : i \in 1..Len(FreeSeq)}

Range(s) == {s[i] : i \in 1..Len(s)}

\* Memory outside the headers of free-list blocks and of live blocks is
\* never read by the allocator: only those headers are kept.
Reachable(st, lv) ==
    [a \in Range(FreeSeqOf(st)) \cup {p - HeaderSize : p \in lv} |-> st.hdr[a]]

\* ---------------------------------------------------------------------
\* The state machine: a client calling the three exported functions
\* ---------------------------------------------------------------------
\* A completed call: what was asked, what came back, the branch of the scan
\* that served it (path), the number of calls of grow it made (grows), the
\* size in the header of the block concerned (size) and the length of the
\* memory when the call began (len0).
NoCall == [op |-> "none", arg |-> 0, ret |-> 0, path |-> "none", grows |-> 0,
           size |-> 0, len0 |-> 0]

\* The trace after one more call: the last call in front, two calls kept.
Remember ==
    SubSeq(<<last>> \o trace, 1, IF Len(trace) = 0 THEN 1 ELSE 2)

Init ==
    /\ hdr = <<>>
    /\ free_list = NULL
    /\ is_initialised = 0
    /\ memLen = InitialLength
    /\ live = {}
    /\ calls = 0
    /\ last = NoCall
    /\ trace = <<>>

Install(st, lv) ==
    /\ hdr' = Reachable(st, lv)
    /\ free_list' = st.free_list
    /\ is_initialised' = st.is_initialised
    /\ memLen' = st.len
    /\ live' = lv
    /\ calls' = calls + 1

\* allocateMemory(n), the provider granting exactly `grants` calls of grow
\* during the call: a number of grants the call does not use up makes the
\* same call as a smaller number, and is left to that one.
AllocateMemory(n, grants) ==
    /\ calls < MaxCalls
    /\ LET r == AllocateMemoryOp(State, n, grants, 0)
           lv == IF r.ret = NULL THEN live ELSE live \cup {r.ret}
       IN  /\ r.grants = 0
           /\ Install(r.st, lv)
           /\ last' = [op |-> "alloc", arg |-> n, ret |-> r.ret, path |-> r.path,
                       grows |-> r.grows,
                       size |-> IF r.ret = NULL THEN 0
                                ELSE r.st.hdr[r.ret - HeaderSize].size,
                       len0 |-> memLen]

FreeMemory(ptr) ==
    /\ calls < MaxCalls
    /\ Install(FreeMemoryOp(State, ptr), live \ {ptr})
    /\ last' = [op |-> "free", arg |-> ptr, ret |-> 0, path |-> "none",
                grows |-> 0,
                size |-> IF ptr = NULL THEN 0 ELSE hdr[ptr - HeaderSize].size,
                len0 |-> memLen]

ReportFreeMemory ==
    /\ calls < MaxCalls
    /\ Install(EnsureInitialised(State), live)
    /\ last' = [op |-> "report", arg |-> 0, ret |-> ReportFreeMemoryOp(State),
                path |-> "none", grows |-> 0, size |-> 0, len0 |-> memLen]

\* ---------------------------------------------------------------------
\* Properties
\* ---------------------------------------------------------------------
\* The first address after the block at `a`.
BlockEnd(h, a) == a + HeaderSize + h[a].size

\* The size in the header of the block a live pointer belongs to.
SizeOf(ptr) == hdr[ptr - HeaderSize].size

\* C1 (no overlap): the payload regions [p, p + size) of the live pointers
\* are pairwise disjoint, and none of them overlaps the header or the payload
\* of a block of the free list.
C1_NoOverlap ==
    /\ \A p \in live : \A q \in live \ {p} :
          p + SizeOf(p) <= q \/ q + SizeOf(q) <= p
    /\ \A p \in live : \A f \in FreeSet :
          p + SizeOf(p) <= f \/ BlockEnd(hdr, f) <= p

\* Two live allocations of more than no bytes beside a free list of two
\* blocks, after a call that grew the memory.
C1_Witness ==
    /\ \E p \in live : \E q \in live \ {p} : SizeOf(p) > 0 /\ SizeOf(q) > 0
    /\ Len(FreeSeq) >= 2
    /\ last.op = "alloc" /\ last.ret # NULL /\ last.grows > 0

\* C2 (address order): following next from free_list visits strictly
\* increasing addresses and ends at NULL.
C2_AddressOrder ==
    /\ \A i \in 1..(Len(FreeSeq) - 1) : FreeSeq[i] < FreeSeq[i + 1]
    /\ free_list # NULL => free_list \in DOMAIN hdr
    /\ \A i \in 1..Len(FreeSeq) :
          hdr[FreeSeq[i]].next = (IF i = Len(FreeSeq) THEN NULL ELSE FreeSeq[i + 1])

\* A block was freed into the middle of a list of three blocks or more.
C2_Witness ==
    /\ last.op = "free" /\ last.arg # NULL
    /\ Len(FreeSeq) >= 3
    /\ \E i \in 2..(Len(FreeSeq) - 1) : FreeSeq[i] = last.arg - HeaderSize

\* C3 (coalescing): no block of the free list ends where another block of
\* the free list begins.
C3_Coalesced ==
    \A a \in FreeSet : \A b \in FreeSet : BlockEnd(hdr, a) # b

\* The block freed last lay between two free blocks and is now inside one
\* free block that begins below it and ends above it.
C3_Witness ==
    /\ last.op = "free" /\ last.arg # NULL
    /\ \E f \in FreeSet :
          /\ f < last.arg - HeaderSize
          /\ BlockEnd(hdr, f) > last.arg + last.size

\* C4 (alignment): every live pointer is a multiple of 8 and lies HeaderSize
\* bytes after a block header, the one that records its allocation (next is
\* NULL and the size covers the request).
C4_Alignment ==
    /\ \A p \in live :
          /\ p % 8 = 0
          /\ p - HeaderSize \in DOMAIN hdr
          /\ hdr[p - HeaderSize].next = NULL
    /\ (last.op = "alloc" /\ last.ret # NULL) =>
          /\ last.ret % 8 = 0
          /\ last.ret \in live
          /\ SizeOf(last.ret) >= last.arg

\* A request of 5 bytes was served from a block that earlier requests had
\* split.
C4_Witness ==
    /\ last.op = "alloc" /\ last.ret # NULL /\ last.arg = 5
    /\ last.ret > initial_offset + HeaderSize
    /\ Cardinality(live) >= 2

\* The state a call works on once ensureInitialised has run.
PreState == EnsureInitialised(State)

\* What reportFreeMemory returns in the current state.
ReportNow == ReportFreeMemoryOp(State)

\* C5 (growth failure purity): a call of allocateMemory that returns NULL
\* leaves the free list (head, blocks, sizes, links) and the length of the
\* memory as they were when the call began.
C5_GrowthFailurePurity ==
    [][(calls' # calls /\ last'.op = "alloc" /\ last'.ret = NULL) =>
          /\ free_list' = PreState.free_list
          /\ memLen' = PreState.len
          /\ hdr' = Reachable(PreState, live)]_vars

\* C6 (bounded retry): one call of allocateMemory calls grow at most once.
C6_BoundedRetry ==
    last.op = "alloc" => last.grows <= 1

\* C7 (accounting), as claimed: every successful allocateMemory lowers
\* reportFreeMemory by the padded request plus HeaderSize, and freeing that
\* pointer in the next call raises it by the same amount.
C7_Accounting ==
    [][/\ (calls' # calls /\ last'.op = "alloc" /\ last'.ret # NULL) =>
            ReportNow' = ReportNow - (Pad(last'.arg) + HeaderSize)
       /\ (calls' # calls /\ last'.op = "free" /\ last'.arg # NULL
            /\ last.op = "alloc" /\ last.ret = last'.arg) =>
            ReportNow' = ReportNow + (Pad(last.arg) + HeaderSize)]_vars

\* C7 (accounting), amended: a successful allocateMemory that splits a
\* larger block without growing the memory lowers reportFreeMemory by the
\* padded request plus HeaderSize, and freeing that pointer in the next call
\* raises it by the same amount.
C7_AccountingSplit ==
    [][/\ (calls' # calls /\ last'.op = "alloc" /\ last'.ret # NULL
            /\ last'.path = "split" /\ last'.grows = 0) =>
            ReportNow' = ReportNow - (Pad(last'.arg) + HeaderSize)
       /\ (calls' # calls /\ last'.op = "free" /\ last'.arg # NULL
            /\ last.op = "alloc" /\ last.ret = last'.arg
            /\ last.path = "split" /\ last.grows = 0) =>
            ReportNow' = ReportNow + (Pad(last.arg) + HeaderSize)]_vars

\* A request of 5 bytes was served by a split without growth, and the next
\* call freed its pointer.
C7_Witness ==
    /\ Len(trace) >= 1
    /\ trace[1].op = "alloc" /\ trace[1].ret # NULL /\ trace[1].arg = 5
    /\ trace[1].path = "split" /\ trace[1].grows = 0
    /\ last.op = "free" /\ last.arg = trace[1].ret

\* The three calls p = allocateMemory(N), freeMemory(p), allocateMemory(N)
\* were the last three.
ReuseCalls ==
    /\ Len(trace) = 2
    /\ trace[2].op = "alloc" /\ trace[2].ret # NULL
    /\ trace[1].op = "free" /\ trace[1].arg = trace[2].ret
    /\ last.op = "alloc" /\ last.arg = trace[2].arg

\* C8 (exact-fit reuse): p = allocateMemory(N), freeMemory(p) and
\* allocateMemory(N) in a row: the second allocation returns p.
C8_ExactFitReuse ==
    ReuseCalls => last.ret = trace[2].ret

\* The three calls were made, the first of them grew the memory, and the
\* third returned the pointer of the first.
C8_Witness ==
    ReuseCalls /\ trace[2].grows >= 1 /\ last.ret = trace[2].ret

\* Live pointers a, b of physically adjacent blocks, a's block first.
Adjacent(a, b) == a + SizeOf(a) = b - HeaderSize

\* A block of the free list ends where a's block begins, or begins where
\* b's block ends.
OuterNeighbourFree(a, b) ==
    \/ \E f \in FreeSet : BlockEnd(hdr, f) = a - HeaderSize
    \/ b + SizeOf(b) \in FreeSet

\* The state after freeMemory(x); freeMemory(y) from the current state.
FreeBoth(x, y) == FreeMemoryOp(FreeMemoryOp(State, x), y)

\* C9 (coalescing is order-independent): for live adjacent blocks A, B with
\* no free outer neighbour, freeing A then B and freeing B then A give the
\* same free list, in which the block at A has size A.size + B.size +
\* HeaderSize.
C9_CoalescingOrder ==
    \A a \in live : \A b \in live :
        (Adjacent(a, b) /\ ~OuterNeighbourFree(a, b)) =>
            LET ab == FreeBoth(a, b)
                ba == FreeBoth(b, a)
            IN  /\ ab.free_list = ba.free_list
                /\ Reachable(ab, {}) = Reachable(ba, {})
                /\ a - HeaderSize \in Range(FreeSeqOf(ab))
                /\ ab.hdr[a - HeaderSize].size = SizeOf(a) + SizeOf(b) + HeaderSize

\* The last two calls freed two adjacent blocks, the upper one first, and
\* the free list holds one block at the lower address with the sum of the
\* sizes plus HeaderSize.
C9_Witness ==
    /\ Len(trace) >= 1
    /\ trace[1].op = "free" /\ last.op = "free"
    /\ last.arg # NULL /\ trace[1].arg # NULL
    /\ last.arg + last.size = trace[1].arg - HeaderSize
    /\ last.arg - HeaderSize \in FreeSet
    /\ SizeOf(last.arg) = last.size + trace[1].size + HeaderSize

\* C10 (growth fallback), as claimed: a successful allocateMemory that grew
\* the memory returns a pointer at or above the length the memory had
\* before.
C10_GrowthFallback ==
    (last.op = "alloc" /\ last.ret # NULL /\ last.grows >= 1) =>
        last.ret >= last.len0

\* The blocks of the free list that end exactly where the memory ends, as
\* the call finds them.
TailAtLength ==
    {f \in Range(FreeSeqOf(PreState)) : BlockEnd(PreState.hdr, f) = memLen}

\* C10 (growth fallback), amended: a successful allocateMemory that grew
\* the memory returns a block whose payload ends inside the new region.  The
\* block is the one at the old length (the pointer is the old length plus
\* HeaderSize) unless a free block ended exactly at the old length: then the
\* new region is merged with that block and the pointer returned is the
\* payload of that block, at or below the old length.
C10_GrowthFallbackCoalesced ==
    [][(calls' # calls /\ last'.op = "alloc" /\ last'.ret # NULL
        /\ last'.grows >= 1) =>
          /\ last'.ret + last'.size > memLen
          /\ last'.ret + last'.size <= memLen'
          /\ TailAtLength = {} => last'.ret = memLen + HeaderSize
          /\ TailAtLength # {} =>
                /\ last'.ret - HeaderSize \in TailAtLength
                /\ last'.ret <= memLen]_vars

\* An allocation found no fit in a list that was not empty, grew the memory
\* and returned a pointer in the new region.
C10_Witness ==
    /\ last.op = "alloc" /\ last.ret # NULL /\ last.grows >= 1
    /\ last.ret >= last.len0
    /\ Len(FreeSeq) >= 2

\* The one block ensureInitialised installs in a memory of length len.
InitialBlock(len) ==
    [a \in {initial_offset} |->
        [size |-> len - (HeaderSize + initial_offset), next |-> NULL]]

\* C11 (idempotent initialisation): the body of ensureInitialised runs in
\* the first call and in no other.  The first call works on a free list of
\* one block at address 8, of size length - HeaderSize - 8 and next NULL;
\* every later call works on the free list the call before it left, also
\* when that list is empty: reportFreeMemory and freeMemory(NULL) then leave
\* free_list and the headers as they are.
C11_IdempotentInit ==
    [][calls' # calls =>
          /\ (is_initialised = 0) <=> (calls = 0)
          /\ is_initialised' = 1
          /\ is_initialised = 0 =>
                /\ PreState.free_list = initial_offset
                /\ PreState.hdr = InitialBlock(memLen)
                /\ PreState.is_initialised = 1
          /\ is_initialised = 1 =>
                /\ PreState = State
                /\ (last'.op = "report" \/ (last'.op = "free" /\ last'.arg = NULL)) =>
                      (free_list' = free_list /\ hdr' = hdr)
                /\ last'.op = "report" => last'.ret = ReportNow]_vars

\* reportFreeMemory was called on an initialised allocator whose free list
\* was empty, and found it empty.
C11_Witness ==
    /\ last.op = "report" /\ last.ret = 0
    /\ is_initialised = 1 /\ free_list = NULL
    /\ calls >= 3 /\ live # {}

\* C12 (null-free no-op), as claimed: freeMemory(NULL) leaves free_list and
\* every header as they are, in every reachable state.
C12_NullFreeNoOp ==
    [][(calls' # calls /\ last'.op = "free" /\ last'.arg = NULL) =>
          (free_list' = free_list /\ hdr' = hdr)]_vars

\* C12 (null-free no-op), amended: freeMemory(NULL) on an initialised
\* allocator leaves free_list, every header, the length of the memory and
\* the live pointers as they are; as the first call ever made it does what
\* ensureInitialised does and no more.
C12_NullFreeNoOpInitialised ==
    [][(calls' # calls /\ last'.op = "free" /\ last'.arg = NULL) =>
          /\ is_initialised = 1 => (free_list' = free_list /\ hdr' = hdr)
          /\ free_list' = PreState.free_list
          /\ hdr' = Reachable(PreState, live)
          /\ memLen' = memLen
          /\ live' = live]_vars

\* freeMemory(NULL) was called with two blocks or more in the free list and
\* a live pointer.
C12_Witness ==
    /\ last.op = "free" /\ last.arg = NULL
    /\ Len(FreeSeq) >= 2
    /\ live # {}

\* The sequence s without the element x.
Without(s, x) == SelectSeq(s, LAMBDA y : y # x)

\* The call just made was an allocateMemory that did not grow the memory
\* and returned a block taken from the branch `path` of the scan.
Served(path) ==
    /\ calls' # calls
    /\ last'.op = "alloc" /\ last'.ret # NULL
    /\ last'.grows = 0 /\ last'.path = path

\* C13 (exact-match unlink): an allocateMemory served by an exact match
\* removes that block from the free list and no other: the other blocks are
\* in the list afterwards, in the same order and with the same sizes.
C13_ExactMatchUnlink ==
    [][Served("exact") =>
          /\ FreeSeq' = Without(FreeSeqOf(PreState), last'.ret - HeaderSize)
          /\ \A f \in Range(FreeSeq') : hdr'[f].size = PreState.hdr[f].size]_vars

\* The sequence s with the element x replaced by y.
Replaced(s, x, y) == [i \in 1..Len(s) |-> IF s[i] = x THEN y ELSE s[i]]

\* C14 (split correctness): an allocateMemory served by splitting a block
\* of size originalSize leaves, in that block's place in the free list and
\* with that block's successor, a block at original + HeaderSize +
\* roundedSize of size originalSize - roundedSize - HeaderSize, and the
\* block returned has size roundedSize.  After a call that grew the memory
\* the remainder is likewise the free block that begins where the payload
\* returned ends.
C14_SplitCorrect ==
    [][/\ Served("split") =>
            LET original == last'.ret - HeaderSize
                roundedSize == Pad(last'.arg)
                remainder == original + HeaderSize + roundedSize
            IN  /\ PreState.hdr[original].size > roundedSize
                /\ FreeSeq' = Replaced(FreeSeqOf(PreState), original, remainder)
                /\ hdr'[remainder].size =
                       PreState.hdr[original].size - roundedSize - HeaderSize
                /\ hdr'[remainder].next = PreState.hdr[original].next
                /\ hdr'[original].size = roundedSize
                /\ \A f \in Range(FreeSeq') \ {remainder} :
                       hdr'[f].size = PreState.hdr[f].size
       /\ (calls' # calls /\ last'.op = "alloc" /\ last'.path = "split") =>
            /\ last'.ret + last'.size \in Range(FreeSeq')
            /\ hdr'[last'.ret - HeaderSize].size = last'.size]_vars

\* A block that is not the head of the free list was split: the remainder
\* stands behind the block that stood before the original.
C14_Witness ==
    /\ last.op = "alloc" /\ last.path = "split" /\ last.grows = 0
    /\ \E i \in 2..Len(FreeSeq) : FreeSeq[i] = last.ret + last.size

\* The blocks of the free list of st that can hold size bytes.
Fitting(st, size) == {f \in Range(FreeSeqOf(st)) : st.hdr[f].size >= size}

Lowest(S) == CHOOSE x \in S : \A y \in S : x <= y

\* C15 (first fit by address): an allocateMemory call grows the memory only
\* when no block of the free list is as large as the rounded request, and a
\* call that succeeds without growing returns the payload of the
\* lowest-addressed block of the free list whose size is at least the
\* rounded request: by exact match when that block has the rounded size, by
\* split when it is larger, whatever the sizes of the blocks behind it.
C15_FirstFit ==
    [][(calls' # calls /\ last'.op = "alloc") =>
          LET fit == Fitting(PreState, Pad(last'.arg))
          IN  /\ (last'.grows = 0) <=> (fit # {})
              /\ (last'.grows = 0 /\ last'.ret # NULL) =>
                    /\ last'.ret = Lowest(fit) + HeaderSize
                    /\ last'.path =
                          IF PreState.hdr[Lowest(fit)].size = Pad(last'.arg)
                          THEN "exact" ELSE "split"]_vars

\* A block was split although a block of exactly the rounded size stood
\* higher in the free list, behind the remainder, where it still stands.
C15_Witness ==
    /\ last.op = "alloc" /\ last.path = "split" /\ last.grows = 0
    /\ \E f \in FreeSet : f > last.ret + last.size /\ hdr[f].size = last.size

\* C16 (allocated size): after allocateMemory(n) has returned a non-null
\* pointer, the header in front of the pointer records the size n rounded up
\* to the next multiple of 8 and the successor NULL, whether the call was
\* served by exact match, by split or after growing the memory.
C16_AllocatedSize ==
    (last.op = "alloc" /\ last.ret # NULL) =>
        /\ SizeOf(last.ret) = Pad(last.arg)
        /\ hdr[last.ret - HeaderSize].next = NULL

\* The bytes taken by the blocks at the addresses of S, headers included.
RECURSIVE Footprint(_)
Footprint(S) ==
    IF S = {} THEN 0
    ELSE LET a == CHOOSE x \in S : TRUE
         IN  HeaderSize + hdr[a].size + Footprint(S \ {a})

\* C17 (no leaked memory): between operations, once the allocator is
\* initialised, the blocks of the free list and the live blocks together
\* take all of the managed range: their sizes and headers add up to the
\* length of the memory less the 8 bytes below the first block, and when no
\* pointer is live the free list is the single block at 8 of size
\* length - 8 - HeaderSize.
C17_NoLeak ==
    is_initialised = 1 =>
        /\ Footprint(FreeSet \cup {p - HeaderSize : p \in live}) =
               memLen - initial_offset
        /\ live = {} => /\ FreeSeq = <<initial_offset>>
                        /\ hdr[initial_offset].size =
                               memLen - initial_offset - HeaderSize

\* C18 (termination): every allocateMemory call returns.  Each retry
\* follows a growth that succeeded, so a call makes at most one call of
\* grow more than the pages it added (the one that failed, which ends the
\* call), and with the retry asking for the rounded request plus HeaderSize
\* no call makes more than two calls of grow, whether they succeed or fail.
C18_Termination ==
    last.op = "alloc" =>
        /\ last.grows <= 2
        /\ last.grows <= ((memLen - last.len0) \div BLKSIZ) + 1
        /\ last.ret # NULL => last.grows <= (memLen - last.len0) \div BLKSIZ

\* A call that retried twice, each time after a growth that succeeded.
C18_Witness ==
    /\ last.op = "alloc" /\ last.ret # NULL /\ last.grows = 2

\* C19 (no size underflow on split): every block, free or live, has a size
\* that is a multiple of 8 and ends inside the memory, so its size is no
\* wrapped difference; a block that the scan splits is at least HeaderSize
\* larger than the rounded request, and the remainder of a split has the
\* size of the original less the rounded request less HeaderSize, which may
\* be 0.
C19_NoUnderflow ==
    [][/\ \A a \in DOMAIN hdr :
              /\ hdr[a].size % 8 = 0
              /\ a + HeaderSize + hdr[a].size <= memLen
       /\ (calls' # calls /\ last'.op = "alloc" /\ last'.path = "split") =>
              LET remainder == last'.ret + last'.size
              IN  /\ remainder \in Range(FreeSeq')
                  /\ remainder + HeaderSize + hdr'[remainder].size <= memLen'
                  /\ hdr'[remainder].size % 8 = 0
                  /\ last'.grows = 0 =>
                        /\ PreState.hdr[last'.ret - HeaderSize].size >=
                               Pad(last'.arg) + HeaderSize
                        /\ hdr'[remainder].size =
                               PreState.hdr[last'.ret - HeaderSize].size
                                   - Pad(last'.arg) - HeaderSize]_vars

\* A split that left a remainder of size 0.
C19_Witness ==
    /\ last.op = "alloc" /\ last.path = "split"
    /\ last.ret + last.size \in FreeSet
    /\ hdr[last.ret + last.size].size = 0

\* The client's calls, the trace unused.
Next ==
    \/ \E n \in Requests, grants \in 0..MaxGrants :
          AllocateMemory(n, grants) /\ trace' = trace
    \/ \E ptr \in live \cup {NULL} : FreeMemory(ptr) /\ trace' = trace
    \/ ReportFreeMemory /\ trace' = trace

Spec == Init /\ [][Next]_vars

\* The same calls, each of them kept in the trace; one call fewer.
NextTrace ==
    \/ \E n \in Requests, grants \in 0..MaxGrants :
          calls < MaxCalls - 1 /\ AllocateMemory(n, grants) /\ trace' = Remember
    \/ \E ptr \in live \cup {NULL} :
          calls < MaxCalls - 1 /\ FreeMemory(ptr) /\ trace' = Remember
    \/ calls < MaxCalls - 1 /\ ReportFreeMemory /\ trace' = Remember

SpecTrace == Init /\ [][NextTrace]_vars

====
